---- MODULE Spec2Model ----
(***************************************************************************)
(* A model of the CRDT building blocks of y-websocket:                     *)
(*   - LWWRegister   (src/src/crdts/llw-register.ts)                       *)
(*   - LWWMap        (src/unnamed/part_000)                                *)
(*   - Awareness     (src/src/y-protocols/awareness.js)                    *)
(* and the delivery of awareness entries about one peer to two receiving   *)
(* Awareness stores.  The components share no state.  The variable         *)
(* `component` names the one a behaviour exercises; the variables of the   *)
(* others keep their idle values.                                          *)
(***************************************************************************)
EXTENDS Integers, Sequences, FiniteSets, TLC

VARIABLES
    component,  \* "register" | "map" | "awareness" | "delivery"
    reg,        \* LWWRegister replicas: client id -> this.state
    produced,   \* client id -> the states that replica has held as its own writes
    received,   \* client id -> the states of the other replica it has merged
    data,       \* LWWMap.data: key -> the state of the key's register
    states,     \* Awareness.states: client id -> state (no entry = offline)
    meta,       \* Awareness.meta: client id -> [clock, lastUpdated]
    checkInterval, \* Awareness._checkInterval: "set" | "cleared"
    observers,  \* Awareness._observers holds listeners
    wire,       \* the entries about one peer that are sent to the receivers
    receivers,  \* receiver -> its states and meta, and the entries it has got
    last        \* the last call: its name, arguments and what it returned / emitted

vars == <<component, reg, produced, received, data, states, meta,
          checkInterval, observers, wire, receivers, last>>

regVars == <<reg, produced, received>>
mapVars == <<data>>
awVars == <<states, meta, checkInterval, observers>>
netVars == <<wire, receivers>>

NoCall == [op |-> "none"]

(***************************************************************************)
(* Bounds                                                                  *)
(***************************************************************************)
\* the largest timestamp a register is driven to
MaxTs == 2

\* the largest awareness clock a store is driven to
MaxClock == 2

\* the largest number of entries about one peer that are sent to receivers
MaxWire == 3

(***************************************************************************)
(* LWWRegister                                                             *)
(***************************************************************************)
\* the two replicas onMounted() constructs
Peers == {"alice", "bob"}

\* values written to a register
RegValues == {"hello", "x"}

IState == [peer : Peers, timestamp : 0..MaxTs, value : RegValues]

OtherPeer(id) == CHOOSE o \in Peers : o # id

\* a set() that does not advance the timestamp
LWWRegister_set_sameTimestamp(id, state, value) ==
    [peer |-> id, timestamp |-> state.timestamp, value |-> value]

\* LWWRegister.set(value): the new state of a register owned by `id`
\* whose state is `state`
LWWRegister_set(id, state, value) ==
    [peer |-> id, timestamp |-> state.timestamp + 1, value |-> value]

\* a merge() that adopts whatever it is given
LWWRegister_merge_adoptAlways(local, remote) == remote

\* LWWRegister.merge(state): the new state of a register whose state is `local`
LWWRegister_merge(local, remote) ==
    IF local.timestamp > remote.timestamp
    THEN local
    ELSE IF local.timestamp = remote.timestamp /\ remote.peer # local.peer
         THEN local
         ELSE remote

\* the variables of a component no call is made on
EmptyMap == [k \in {} |-> NoCall]
RegisterIdle == reg = EmptyMap /\ produced = EmptyMap /\ received = EmptyMap
MapIdle == data = EmptyMap
AwarenessIdle ==
    /\ states = EmptyMap
    /\ meta = EmptyMap
    /\ checkInterval = "cleared"
    /\ observers = FALSE
DeliveryIdle == wire = {} /\ receivers = EmptyMap

\* onMounted(): both replicas start from their own state; Date.now() may give
\* the two the same or different timestamps
InitRegister ==
    /\ component = "register"
    /\ \E ta \in 0..1, tb \in 0..1 :
          reg = [id \in Peers |->
                   [peer |-> id,
                    timestamp |-> IF id = "alice" THEN ta ELSE tb,
                    value |-> "hello"]]
    /\ produced = [id \in Peers |-> {reg[id]}]
    /\ received = [id \in Peers |-> {}]
    /\ last = NoCall
    /\ MapIdle
    /\ AwarenessIdle
    /\ DeliveryIdle

\* a local write on replica `id`; the new state is what the replica sends
RegSet(id, value) ==
    /\ component = "register"
    /\ reg[id].timestamp < MaxTs
    /\ LET new == LWWRegister_set(id, reg[id], value) IN
         /\ reg' = [reg EXCEPT ![id] = new]
         /\ produced' = [produced EXCEPT ![id] = @ \cup {new}]
         /\ last' = [op |-> "set", id |-> id, arg |-> value, pre |-> reg]
    /\ UNCHANGED <<component, netVars, received, mapVars, awVars>>

\* The call id.merge(state) completes an exchange of states when the call
\* before it was the other replica merging the state `id` held, and `state`
\* is the state the other replica holds now.
CompletesExchange(id, state) ==
    /\ last.op = "merge"
    /\ last.id = OtherPeer(id)
    /\ last.arg = last.pre[id]
    /\ state = reg[OtherPeer(id)]

\* replica `id` merges a state of the other replica: one the other sent at
\* some time (any order, any number of times) or the one it holds now.
\* last.exchange holds the states the two replicas had before the exchange
\* this call completes, if it completes one.
RegMerge(id, state) ==
    /\ component = "register"
    /\ state \in produced[OtherPeer(id)] \cup {reg[OtherPeer(id)]}
    /\ reg' = [reg EXCEPT ![id] = LWWRegister_merge(@, state)]
    /\ received' = [received EXCEPT
                      ![id] = @ \cup ({state} \cap produced[OtherPeer(id)])]
    /\ last' = [op |-> "merge", id |-> id, arg |-> state, pre |-> reg,
                exchange |-> IF CompletesExchange(id, state)
                             THEN last.pre ELSE EmptyMap]
    /\ UNCHANGED <<component, netVars, produced, mapVars, awVars>>

NextRegister ==
    \/ \E id \in Peers, value \in RegValues : RegSet(id, value)
    \/ \E id \in Peers, state \in IState : RegMerge(id, state)

SpecRegister == InitRegister /\ [][NextRegister]_vars

(***************************************************************************)
(* LWWMap                                                                  *)
(***************************************************************************)
\* JavaScript values are written as their literals
Null == "null"
Undefined == "undefined"

\* what the || operator takes for true
Truthy(v) == v \notin {"null", "undefined", "0", "''", "false"}

\* the id the map is constructed with, and the id of a remote writer
MapId == "alice"

MapKeys == {"k1", "k2"}

\* values of type T stored under a key: a non-empty string, and the falsy 0
\* and false
MapValues == {"'a'", "0", "false"}

\* LWWRegister<T | null>["state"]
MapRegState ==
    [peer : Peers, timestamp : 1..MaxTs, value : MapValues \cup {Null}]

\* State<T>: an object of register states
MapState == UNION {[ks -> MapRegState] : ks \in SUBSET MapKeys}

\* this.data.get(key)?.value
OptValue(d, key) == IF key \in DOMAIN d THEN d[key].value ELSE Undefined

\* get value()
LWWMap_value(d) ==
    [key \in {k \in DOMAIN d : d[k].value # Null} |-> d[key].value]

\* get state()
LWWMap_state(d) == [key \in DOMAIN d |-> d[key]]

\* merge(state)
LWWMap_merge(d, state) ==
    [key \in DOMAIN d \cup DOMAIN state |->
        IF key \notin DOMAIN state
        THEN d[key]
        ELSE IF key \in DOMAIN d
             THEN LWWRegister_merge(d[key], state[key])
             ELSE state[key]]

\* set(key, value)
LWWMap_set(d, id, key, value) ==
    IF key \in DOMAIN d
    THEN [d EXCEPT ![key] = LWWRegister_set(id, @, value)]
    ELSE [k \in DOMAIN d \cup {key} |->
            IF k = key
            THEN [peer |-> id, timestamp |-> 1, value |-> value]
            ELSE d[k]]

\* get(key)
LWWMap_get(d, key) ==
    IF Truthy(OptValue(d, key)) THEN OptValue(d, key) ELSE Undefined

\* a delete() that drops the key from the map
LWWMap_delete_dropKey(d, id, key) == [k \in DOMAIN d \ {key} |-> d[k]]

\* delete(key)
LWWMap_delete(d, id, key) ==
    IF key \in DOMAIN d
    THEN [d EXCEPT ![key] = LWWRegister_set(id, @, Null)]
    ELSE d

\* has(key)
LWWMap_has(d, key) == OptValue(d, key) # Null

\* new LWWMap(id, {})
InitMap ==
    /\ component = "map"
    /\ data = EmptyMap
    /\ last = NoCall
    /\ RegisterIdle
    /\ AwarenessIdle
    /\ DeliveryIdle

MapSet(key, value) ==
    /\ component = "map"
    /\ key \in DOMAIN data => data[key].timestamp < MaxTs
    /\ data' = LWWMap_set(data, MapId, key, value)
    /\ last' = [op |-> "set", key |-> key, arg |-> value, keys |-> DOMAIN data]
    /\ UNCHANGED <<component, netVars, regVars, awVars>>

MapDelete(key) ==
    /\ component = "map"
    /\ key \in DOMAIN data => data[key].timestamp < MaxTs
    /\ data' = LWWMap_delete(data, MapId, key)
    /\ last' = [op |-> "delete", key |-> key, pre |-> data,
                keys |-> DOMAIN data]
    /\ UNCHANGED <<component, netVars, regVars, awVars>>

MapMerge(state) ==
    /\ component = "map"
    /\ data' = LWWMap_merge(data, state)
    /\ last' = [op |-> "merge", keys |-> DOMAIN data]
    /\ UNCHANGED <<component, netVars, regVars, awVars>>

MapGet(key) ==
    /\ component = "map"
    /\ last' = [op |-> "get", key |-> key, ret |-> LWWMap_get(data, key)]
    /\ UNCHANGED <<component, netVars, regVars, data, awVars>>

MapHas(key) ==
    /\ component = "map"
    /\ last' = [op |-> "has", key |-> key, ret |-> LWWMap_has(data, key)]
    /\ UNCHANGED <<component, netVars, regVars, data, awVars>>

NextMap ==
    \/ \E key \in MapKeys, value \in MapValues : MapSet(key, value)
    \/ \E key \in MapKeys : MapDelete(key)
    \/ \E state \in MapState : MapMerge(state)
    \/ \E key \in MapKeys : MapGet(key)
    \/ \E key \in MapKeys : MapHas(key)

SpecMap == InitMap /\ [][NextMap]_vars

(***************************************************************************)
(* Awareness                                                               *)
(***************************************************************************)
outdatedTimeout == 30000

\* doc.clientID of the local instance, and the ids of the store's clients
LocalId == 1
Clients == {1, 2}

\* Time is kept relative to the present: getUnixTime is always Horizon and
\* the passing of TimeStep moves every recorded lastUpdated back by TimeStep.
\* A lastUpdated of 0 stands for an age of Horizon or more, which is beyond
\* both thresholds the code compares an age with.
TimeStep == outdatedTimeout \div 2
Horizon == outdatedTimeout + TimeStep
getUnixTime == Horizon

\* state objects, written as their JSON text
AwStates == {"{}", "{x:1}"}

\* { ...state, [field]: value } for the field x and the value 1
Spread(state, field, value) == "{x:1}"

\* a comparison that finds no two states equal
equalityDeep_never(a, b) == FALSE

\* f.equalityDeep
equalityDeep(a, b) == a = b

\* Map.set and Map.delete
MapPut(f, k, v) == [x \in DOMAIN f \cup {k} |-> IF x = k THEN v ELSE f[x]]
MapDel(f, k) == [x \in DOMAIN f \ {k} |-> f[x]]

\* the argument list of emit(name, [{added, updated, removed}, origin])
Event(name, added, updated, removed, origin) ==
    [name |-> name, added |-> added, updated |-> updated,
     removed |-> removed, origin |-> origin]

Has(seq, x) == \E i \in 1..Len(seq) : seq[i] = x

\* getLocalState(): a state object is never falsy
getLocalState(st) == IF LocalId \in DOMAIN st THEN st[LocalId] ELSE Null

\* setLocalState(state) at time t: the new maps and the events emitted
setLocalState(st, mt, state, t) ==
    LET clientID == LocalId
        clock == IF clientID \notin DOMAIN mt THEN 0 ELSE mt[clientID].clock + 1
        hadPrev == clientID \in DOMAIN st
        added == IF state # Null /\ ~hadPrev THEN <<clientID>> ELSE <<>>
        updated == IF state # Null /\ hadPrev THEN <<clientID>> ELSE <<>>
        filteredUpdated ==
            IF state # Null /\ hadPrev /\ ~equalityDeep(st[clientID], state)
            THEN <<clientID>> ELSE <<>>
        removed == IF state = Null THEN <<clientID>> ELSE <<>>
    IN  [states |-> IF state = Null THEN MapDel(st, clientID)
                    ELSE MapPut(st, clientID, state),
         meta |-> MapPut(mt, clientID, [clock |-> clock, lastUpdated |-> t]),
         events |->
            (IF Len(added) > 0 \/ Len(filteredUpdated) > 0 \/ Len(removed) > 0
             THEN <<Event("change", added, filteredUpdated, removed, "local")>>
             ELSE <<>>)
            \o <<Event("update", added, updated, removed, "local")>>]

\* a removal of the local client that leaves its clock as it is
RemovedLocalMeta_sameClock(curMeta, t) ==
    [clock |-> curMeta.clock, lastUpdated |-> t]

\* the meta entry removeAwarenessStates writes for the local client
RemovedLocalMeta(curMeta, t) ==
    [clock |-> curMeta.clock + 1, lastUpdated |-> t]

\* a removal that leaves the entry in the map
RemoveEntry_keep(st, clientID) == st

\* the states map after removeAwarenessStates found clientID in it
RemoveEntry(st, clientID) == MapDel(st, clientID)

\* the loop of removeAwarenessStates from clients[i] on
RECURSIVE removeLoop(_, _, _, _, _, _)
removeLoop(st, mt, clients, i, removed, t) ==
    IF i > Len(clients)
    THEN [states |-> st, meta |-> mt, removed |-> removed]
    ELSE LET clientID == clients[i] IN
         IF clientID \in DOMAIN st
         THEN removeLoop(
                 RemoveEntry(st, clientID),
                 IF clientID = LocalId
                 THEN MapPut(mt, clientID, RemovedLocalMeta(mt[clientID], t))
                 ELSE mt,
                 clients, i + 1, Append(removed, clientID), t)
         ELSE removeLoop(st, mt, clients, i + 1, removed, t)

\* removeAwarenessStates(awareness, clients, origin) at time t
removeAwarenessStates(st, mt, clients, origin, t) ==
    LET r == removeLoop(st, mt, clients, 1, <<>>, t) IN
    [states |-> r.states,
     meta |-> r.meta,
     events |->
        IF Len(r.removed) > 0
        THEN <<Event("change", <<>>, <<>>, r.removed, origin),
               Event("update", <<>>, <<>>, r.removed, origin)>>
        ELSE <<>>]

\* a test that lets in every entry of an equal clock
Accepts_equalClock(currClock, clock, state, online) == currClock <= clock

\* encodeAwarenessUpdate(awareness, clients): the entries a decoder reads
\* from the encoded update.  States are held as their JSON text, which is
\* what JSON.stringify writes and JSON.parse reads back; a client without a
\* state is written as null.  Every listed client has a meta entry.
encodeAwarenessUpdate(st, mt, clients) ==
    [i \in 1..Len(clients) |->
        [clientID |-> clients[i],
         clock |-> mt[clients[i]].clock,
         state |-> IF clients[i] \in DOMAIN st THEN st[clients[i]] ELSE Null]]

\* a test that lets a null entry of an equal clock in for an offline client
Accepts_nullAnyTime(currClock, clock, state, online) ==
    currClock < clock \/ (currClock = clock /\ state = Null)

\* a test that lets a state of an equal clock in
Accepts_tiedState(currClock, clock, state, online) ==
    currClock < clock \/ (currClock = clock /\ (state = Null => online))

\* a test that lets every entry in
Accepts_always(currClock, clock, state, online) == TRUE

\* the test that lets an entry of an update in
Accepts(currClock, clock, state, online) ==
    currClock < clock \/ (currClock = clock /\ state = Null /\ online)

\* no protection of the local state
Protects_never(st, clientID, state) == FALSE

\* a null entry about the local client while it has a state
Protects(st, clientID, state) ==
    state = Null /\ clientID = LocalId /\ getLocalState(st) # Null

\* an accepted entry that restarts the clock
AcceptedClock_zero(st, clientID, clock, state) == 0

\* the clock stored for an accepted entry
AcceptedClock(st, clientID, clock, state) ==
    IF Protects(st, clientID, state) THEN clock + 1 ELSE clock

\* the states map after an accepted entry
AcceptedStates(st, clientID, state) ==
    IF state = Null
    THEN IF Protects(st, clientID, state) THEN st ELSE MapDel(st, clientID)
    ELSE MapPut(st, clientID, state)

\* a classification that knows no added client
Classify_noAdded(acc, st, mt, clientID, state) ==
    IF state = Null
    THEN [acc EXCEPT !.removed = Append(@, clientID)]
    ELSE [acc EXCEPT !.filteredUpdated = Append(@, clientID),
                     !.updated = Append(@, clientID)]

\* the four lists after an accepted entry
Classify(acc, st, mt, clientID, state) ==
    IF clientID \notin DOMAIN mt /\ state # Null
    THEN [acc EXCEPT !.added = Append(@, clientID)]
    ELSE IF clientID \in DOMAIN mt /\ state = Null
    THEN [acc EXCEPT !.removed = Append(@, clientID)]
    ELSE IF state # Null
    THEN [acc EXCEPT
            !.filteredUpdated =
                IF clientID \in DOMAIN st /\ equalityDeep(state, st[clientID])
                THEN @ ELSE Append(@, clientID),
            !.updated = Append(@, clientID)]
    ELSE acc

\* the loop of applyAwarenessUpdate from entry i of the decoded update on
RECURSIVE applyLoop(_, _, _, _, _, _)
applyLoop(st, mt, update, i, acc, t) ==
    IF i > Len(update)
    THEN [states |-> st, meta |-> mt, acc |-> acc]
    ELSE LET clientID == update[i].clientID
             clock == update[i].clock
             state == update[i].state
             currClock == IF clientID \notin DOMAIN mt THEN 0
                          ELSE mt[clientID].clock
         IN  IF Accepts(currClock, clock, state, clientID \in DOMAIN st)
             THEN applyLoop(
                     AcceptedStates(st, clientID, state),
                     MapPut(mt, clientID,
                            [clock |-> AcceptedClock(st, clientID, clock, state),
                             lastUpdated |-> t]),
                     update, i + 1,
                     Classify(acc, st, mt, clientID, state), t)
             ELSE applyLoop(st, mt, update, i + 1, acc, t)

\* an application that writes states and leaves meta as it was
applyAwarenessUpdate_statesOnly(st, mt, update, origin, t) ==
    [states |-> applyLoop(st, mt, update, 1,
                          [added |-> <<>>, updated |-> <<>>,
                           filteredUpdated |-> <<>>, removed |-> <<>>],
                          t).states,
     meta |-> mt,
     events |-> <<>>]

\* applyAwarenessUpdate(awareness, update, origin) at time t, the update
\* given as the entries the decoder reads from it
applyAwarenessUpdate(st, mt, update, origin, t) ==
    LET r == applyLoop(st, mt, update, 1,
                       [added |-> <<>>, updated |-> <<>>,
                        filteredUpdated |-> <<>>, removed |-> <<>>], t)
        a == r.acc
    IN  [states |-> r.states,
         meta |-> r.meta,
         events |->
            (IF Len(a.added) > 0 \/ Len(a.filteredUpdated) > 0
                \/ Len(a.removed) > 0
             THEN <<Event("change", a.added, a.filteredUpdated, a.removed,
                          origin)>>
             ELSE <<>>)
            \o
            (IF Len(a.added) > 0 \/ Len(a.updated) > 0 \/ Len(a.removed) > 0
             THEN <<Event("update", a.added, a.updated, a.removed, origin)>>
             ELSE <<>>)]

\* the period of the interval timer
TickPeriod == outdatedTimeout \div 10

\* a renewal only at the full timeout
RenewDue_atTimeout(age) == outdatedTimeout <= age

\* the heartbeat renews the local state at this age of the local meta entry
RenewDue(age) == outdatedTimeout \div 2 <= age

\* an eviction only past the timeout
Outdated_strictly(age) == outdatedTimeout < age

\* the heartbeat evicts an online remote client at this age of its meta entry
Outdated(age) == outdatedTimeout <= age

\* the ids the heartbeat collects in `remove`, in the order of the ids
RECURSIVE SortedSeq(_)
SortedSeq(S) ==
    IF S = {} THEN <<>>
    ELSE LET m == CHOOSE x \in S : \A y \in S : x <= y
         IN <<m>> \o SortedSeq(S \ {m})

SweepList(st, mt, now) ==
    SortedSeq({clientid \in DOMAIN mt :
                  /\ clientid # LocalId
                  /\ Outdated(now - mt[clientid].lastUpdated)
                  /\ clientid \in DOMAIN st})

\* the callback of setInterval, run at time `now`
checkIntervalCallback(st, mt, now) ==
    LET renew == getLocalState(st) # Null
                 /\ RenewDue(now - mt[LocalId].lastUpdated)
        r1 == IF renew THEN setLocalState(st, mt, getLocalState(st), now)
              ELSE [states |-> st, meta |-> mt, events |-> <<>>]
        remove == SweepList(r1.states, r1.meta, now)
        r2 == IF Len(remove) > 0
              THEN removeAwarenessStates(r1.states, r1.meta, remove,
                                         "timeout", now)
              ELSE [states |-> r1.states, meta |-> r1.meta, events |-> <<>>]
    IN  [states |-> r2.states, meta |-> r2.meta,
         events |-> r1.events \o r2.events]

\* the entries of a decoded update: a client, a clock and a state object or
\* null; and updates of one or two entries
Entries == [clientID : Clients, clock : 0..MaxClock, state : {"{x:1}", Null}]
Updates == {<<e>> : e \in Entries} \cup {<<e, f>> : e \in Entries, f \in Entries}

\* client lists handed to removeAwarenessStates
ClientLists ==
    {<<c>> : c \in Clients} \cup {<<c, d>> : c \in Clients, d \in Clients}

ClocksInBound(mt) == \A c \in DOMAIN mt : mt[c].clock <= MaxClock

\* a call whose events reach no listener
Call_unheard(op, events) == [op |-> op, events |-> events, heard |-> FALSE]

\* what a call did, with the events it emitted and whether _observers held
\* listeners to hear them
Call(op, events) == [op |-> op, events |-> events, heard |-> observers]

\* new Awareness(doc): the constructor has run setLocalState({}) and a
\* listener has been registered since
InitAwareness ==
    /\ component = "awareness"
    /\ states = [c \in {LocalId} |-> "{}"]
    /\ meta = [c \in {LocalId} |-> [clock |-> 0, lastUpdated |-> getUnixTime]]
    /\ checkInterval = "set"
    /\ observers = TRUE
    /\ last = NoCall
    /\ RegisterIdle
    /\ MapIdle
    /\ DeliveryIdle

AwStep(op, r) ==
    \E res \in {r} :
       /\ ClocksInBound(res.meta)
       /\ states' = res.states
       /\ meta' = res.meta
       /\ last' = Call(op, res.events)

AwSetLocalState(state) ==
    /\ component = "awareness"
    /\ AwStep("setLocalState", setLocalState(states, meta, state, getUnixTime))
    /\ UNCHANGED <<component, netVars, regVars, mapVars, checkInterval, observers>>

\* setLocalStateField(field, value)
AwSetLocalStateField(field, value) ==
    /\ component = "awareness"
    /\ IF getLocalState(states) # Null
       THEN AwStep("setLocalStateField",
                   setLocalState(states, meta,
                                 Spread(getLocalState(states), field, value),
                                 getUnixTime))
       ELSE /\ last' = Call("setLocalStateField", <<>>)
            /\ UNCHANGED <<states, meta>>
    /\ UNCHANGED <<component, netVars, regVars, mapVars, checkInterval, observers>>

AwRemoveStates(clients, origin) ==
    /\ component = "awareness"
    /\ \E res \in {removeAwarenessStates(states, meta, clients, origin,
                                          getUnixTime)} :
          /\ ClocksInBound(res.meta)
          /\ states' = res.states
          /\ meta' = res.meta
          /\ last' = [op |-> "removeAwarenessStates", events |-> res.events,
                      heard |-> observers, clients |-> clients]
    /\ UNCHANGED <<component, netVars, regVars, mapVars, checkInterval, observers>>

\* Once destroy() has dropped the listeners nobody hears how the entries of
\* an update are grouped into events, and an update has the effect of its
\* entries applied one by one: updates are then delivered entry by entry.
AwApplyUpdate(update, origin) ==
    /\ component = "awareness"
    /\ observers \/ Len(update) = 1
    /\ AwStep("applyAwarenessUpdate",
              applyAwarenessUpdate(states, meta, update, origin, getUnixTime))
    /\ UNCHANGED <<component, netVars, regVars, mapVars, checkInterval, observers>>

\* the interval timer fires
AwTick ==
    /\ component = "awareness"
    /\ checkInterval = "set"
    /\ AwStep("tick", checkIntervalCallback(states, meta, getUnixTime))
    /\ UNCHANGED <<component, netVars, regVars, mapVars, checkInterval, observers>>

\* destroy(), called directly or by the doc's 'destroy' event
AwDestroy ==
    /\ component = "awareness"
    /\ LET r == setLocalState(states, meta, Null, getUnixTime) IN
         AwStep("destroy",
                [r EXCEPT !.events =
                    <<Event("destroy", <<>>, <<>>, <<>>, "")>> \o @])
    /\ observers' = FALSE
    /\ checkInterval' = "cleared"
    /\ UNCHANGED <<component, netVars, regVars, mapVars>>

\* TimeStep passes
AwAdvanceTime ==
    /\ component = "awareness"
    /\ meta' = [c \in DOMAIN meta |->
                  [meta[c] EXCEPT
                     !.lastUpdated = IF @ >= TimeStep THEN @ - TimeStep ELSE 0]]
    /\ last' = Call("advance", <<>>)
    /\ UNCHANGED <<component, netVars, regVars, mapVars, states, checkInterval,
                   observers>>

NextAwareness ==
    \/ \E state \in AwStates \cup {Null} : AwSetLocalState(state)
    \/ AwSetLocalStateField("x", 1)
    \/ \E clients \in ClientLists : AwRemoveStates(clients, "remove")
    \/ \E update \in Updates : AwApplyUpdate(update, "remote")
    \/ AwTick
    \/ AwDestroy
    \/ AwAdvanceTime

SpecAwareness == InitAwareness /\ [][NextAwareness]_vars

(***************************************************************************)
(* Delivery of awareness entries to two receiving stores                   *)
(***************************************************************************)
\* the two stores that receive, and the peer the entries are about: a
\* client other than the receiving instance itself
Receivers == {"r1", "r2"}
WirePeer == CHOOSE c \in Clients : c # LocalId

\* the entries about the peer that a decoder can read from an update
WireEntries ==
    [clientID : {WirePeer}, clock : 0..MaxClock, state : AwStates \cup {Null}]

\* each (peer, clock) pair carries at most one non-null state
OneStatePerClock(S) ==
    \A e \in S, f \in S :
       (e.clock = f.clock /\ e.state # Null /\ f.state # Null) => e = f

Wires ==
    {S \in SUBSET WireEntries :
        S # {} /\ Cardinality(S) <= MaxWire /\ OneStatePerClock(S)}

\* an update carries one or two of the entries, in any order
Batches(S) == {<<e>> : e \in S} \cup {<<e, f>> : e \in S, f \in S}

Range(seq) == {seq[i] : i \in 1..Len(seq)}

\* both receivers are instances as their constructor leaves them: they know
\* themselves and nothing of the peer
InitDelivery ==
    /\ component = "delivery"
    /\ wire \in Wires
    /\ receivers =
          [r \in Receivers |->
             [states |-> [c \in {LocalId} |-> "{}"],
              meta |-> [c \in {LocalId} |->
                          [clock |-> 0, lastUpdated |-> getUnixTime]],
              got |-> {}]]
    /\ last = NoCall
    /\ RegisterIdle
    /\ MapIdle
    /\ AwarenessIdle

\* The two stores share nothing, so a step of one commutes with a step of
\* the other, and every pair of stores that some interleaving of the
\* deliveries reaches with both having got every entry is reached with r1
\* receiving first: r2 starts once r1 has got every entry.
ReceivesNow(r) ==
    IF r = "r1"
    THEN receivers["r2"].got = {}
    ELSE receivers["r1"].got = wire

\* receiver r applies an update made of entries on the wire; an entry can
\* be delivered again at any time
Deliver(r, update) ==
    /\ component = "delivery"
    /\ ReceivesNow(r)
    /\ update \in Batches(wire)
    /\ LET res == applyAwarenessUpdate(receivers[r].states, receivers[r].meta,
                                       update, "remote", getUnixTime)
       IN  receivers' = [receivers EXCEPT
                           ![r] = [states |-> res.states,
                                   meta |-> res.meta,
                                   got |-> @.got \cup Range(update)]]
    /\ UNCHANGED <<component, wire, regVars, mapVars, awVars, last>>

NextDelivery ==
    \E r \in Receivers, update \in Batches(WireEntries) : Deliver(r, update)

SpecDelivery == InitDelivery /\ [][NextDelivery]_vars

(***************************************************************************)
(* The three components                                                    *)
(***************************************************************************)
Init == InitRegister \/ InitMap \/ InitAwareness

Next == NextRegister \/ NextMap \/ NextAwareness

Spec == Init /\ [][Next]_vars

(***************************************************************************)
(* Claims                                                                  *)
(***************************************************************************)
\* C1: two register replicas that have each merged every state the other
\* has produced hold the identical (peer, timestamp, value) state.
C1_Convergence ==
    (/\ component = "register"
     /\ produced["bob"] \subseteq received["alice"]
     /\ produced["alice"] \subseteq received["bob"])
    => reg["alice"] = reg["bob"]

\* the state with the higher timestamp of two replicas' states
Higher(r) ==
    IF r["alice"].timestamp > r["bob"].timestamp THEN r["alice"] ELSE r["bob"]

\* C2: when the states of the two replicas have distinct timestamps, after
\* A.merge(B.state) and B.merge(A.state), in either order, both replicas hold
\* the state that had the higher timestamp.
C2_ExchangeTakesHigher ==
    (/\ component = "register"
     /\ last.op = "merge"
     /\ last.exchange # EmptyMap
     /\ last.exchange["alice"].timestamp # last.exchange["bob"].timestamp)
    => /\ reg["alice"] = Higher(last.exchange)
       /\ reg["bob"] = Higher(last.exchange)

\* an exchange has been completed in which the replica that merged second
\* held the lower timestamp and has adopted the state of the other
C2_Witness ==
    /\ component = "register"
    /\ last.op = "merge"
    /\ last.exchange # EmptyMap
    /\ last.exchange[last.id].timestamp
          < last.exchange[OtherPeer(last.id)].timestamp
    /\ reg[last.id] = last.exchange[OtherPeer(last.id)]
    /\ reg[OtherPeer(last.id)] = last.exchange[OtherPeer(last.id)]

\* C4: set() makes the timestamp exactly the previous one plus 1, and
\* merge() leaves it greater than or equal to what it was.
C4_TimestampMonotonic ==
    component = "register" =>
       /\ last.op = "set" =>
             reg[last.id].timestamp = last.pre[last.id].timestamp + 1
       /\ last.op = "merge" =>
             reg[last.id].timestamp >= last.pre[last.id].timestamp
       /\ last.op \in {"set", "merge"} =>
             reg[OtherPeer(last.id)] = last.pre[OtherPeer(last.id)]

\* a merge that adopted a state written by set() with a higher timestamp
C4_Witness ==
    /\ component = "register"
    /\ last.op = "merge"
    /\ reg[last.id] = last.arg
    /\ reg[last.id].timestamp > last.pre[last.id].timestamp
    /\ last.arg.value = "x"

\* value() of a map freshly constructed with no state and merged with `state`
FreshValue(state) == LWWMap_value(LWWMap_merge(EmptyMap, state))

\* C5 as stated: after delete(k), k is absent from value() and present in
\* state() with a null value and a bumped counter; the key set of state()
\* never shrinks under set, delete and merge; and merging state() into a
\* fresh empty map gives a value() without k.
C5_TombstoneAnyKey ==
    component = "map" =>
       /\ last.op = "delete" =>
             /\ last.key \notin DOMAIN LWWMap_value(data)
             /\ last.key \in DOMAIN LWWMap_state(data)
             /\ LWWMap_state(data)[last.key].value = Null
             /\ last.key \in last.keys =>
                   LWWMap_state(data)[last.key].timestamp
                      = last.pre[last.key].timestamp + 1
             /\ last.key \notin DOMAIN FreshValue(LWWMap_state(data))
       /\ last.op \in {"set", "delete", "merge"} =>
             last.keys \subseteq DOMAIN LWWMap_state(data)

\* C5 amended: the same for a key that has a register when delete(k) is
\* called; delete(k) of a key without a register changes nothing, and k
\* stays absent from value() and from state().
C5_TombstoneOfHeldKey ==
    component = "map" =>
       /\ (last.op = "delete" /\ last.key \in last.keys) =>
             /\ last.key \notin DOMAIN LWWMap_value(data)
             /\ last.key \in DOMAIN LWWMap_state(data)
             /\ LWWMap_state(data)[last.key].value = Null
             /\ LWWMap_state(data)[last.key].timestamp
                   = last.pre[last.key].timestamp + 1
             /\ last.key \notin DOMAIN FreshValue(LWWMap_state(data))
       /\ (last.op = "delete" /\ last.key \notin last.keys) =>
             /\ data = last.pre
             /\ last.key \notin DOMAIN LWWMap_value(data)
             /\ last.key \notin DOMAIN LWWMap_state(data)
             /\ last.key \notin DOMAIN FreshValue(LWWMap_state(data))
       /\ last.op \in {"set", "delete", "merge"} =>
             last.keys \subseteq DOMAIN LWWMap_state(data)

\* delete(k) has turned a key that showed in value() into a tombstone
C5_Witness ==
    /\ component = "map"
    /\ last.op = "delete"
    /\ last.key \in DOMAIN LWWMap_value(last.pre)
    /\ last.key \in DOMAIN data
    /\ data[last.key].value = Null

\* C6: has(key) is true iff the map holds a register for key whose value is
\* not null; it agrees with key being present in value().
C6_HasIffLive ==
    (component = "map" /\ last.op = "has") =>
       /\ last.ret = (last.key \in DOMAIN data /\ data[last.key].value # Null)
       /\ last.ret = (last.key \in DOMAIN LWWMap_value(data))

\* C7: get(key) equals value()[key]: the stored value of every key with a
\* live register, undefined for a missing or tombstoned key.
C7_GetIsValue ==
    (component = "map" /\ last.op = "get") =>
       last.ret = IF last.key \in DOMAIN LWWMap_value(data)
                  THEN LWWMap_value(data)[last.key]
                  ELSE Undefined

\* the age the code computes for the meta entry of client c
Age(mt, c) == getUnixTime - mt[c].lastUpdated

\* the lists of the four kinds named `kind` in the events of a call
Listed(call, name, kind, c) ==
    \E i \in 1..Len(call.events) :
       /\ call.events[i].name = name
       /\ Has(call.events[i][kind], c)

\* the store after the first i - 1 entries of update u
Before(u, i) ==
    applyLoop(states, meta, SubSeq(u, 1, i - 1), 1,
              [added |-> <<>>, updated |-> <<>>,
               filteredUpdated |-> <<>>, removed |-> <<>>], getUnixTime)

\* C8: when applyAwarenessUpdate processes an entry (local id, clock >= the
\* local meta clock, null) while the local state is non-null, the states map
\* is left as it is and the local meta clock becomes the received clock + 1,
\* greater than the received and the previous clock; no update removes the
\* local state.
C8_SelfProtection ==
    component = "awareness" =>
       \A u \in Updates :
          /\ \A i \in 1..Len(u) :
                LET pre == Before(u, i)
                    post == Before(u, i + 1)
                IN  (/\ u[i].clientID = LocalId
                     /\ u[i].state = Null
                     /\ LocalId \in DOMAIN pre.states
                     /\ u[i].clock >= pre.meta[LocalId].clock)
                    => /\ post.states = pre.states
                       /\ post.meta[LocalId].clock = u[i].clock + 1
                       /\ post.meta[LocalId].clock > pre.meta[LocalId].clock
                       /\ post.meta[LocalId].clock > u[i].clock
          /\ LocalId \in DOMAIN states =>
                LocalId \in DOMAIN applyAwarenessUpdate(
                                      states, meta, u, "remote",
                                      getUnixTime).states

\* an update has reported the local client removed, and its state is still
\* there under a raised clock
C8_Witness ==
    /\ component = "awareness"
    /\ last.op = "applyAwarenessUpdate"
    /\ Listed(last, "update", "removed", LocalId)
    /\ LocalId \in DOMAIN states
    /\ meta[LocalId].clock = MaxClock

\* the effect of removeAwarenessStates on the listed clients other than the
\* local one, and on the clients not listed
RemoveOthers ==
    /\ \A c \in Clients \ {LocalId} :
          IF Has(last'.clients, c)
          THEN c \notin DOMAIN states'
          ELSE (c \in DOMAIN states') = (c \in DOMAIN states)
    /\ \A c \in DOMAIN meta \ {LocalId} :
          c \in DOMAIN meta' /\ meta'[c] = meta[c]

RemovesOnlineLocal ==
    /\ last'.op = "removeAwarenessStates"
    /\ Has(last'.clients, LocalId)
    /\ LocalId \in DOMAIN states

\* C9 as stated: removeAwarenessStates with a list that includes the local
\* id while the local client is online leaves the local entry in states,
\* adds 1 to the local clock and sets lastUpdated to now; the other listed
\* clients lose their entry.
C9_LocalStaysOnline ==
    [][RemovesOnlineLocal =>
          /\ LocalId \in DOMAIN states'
          /\ states'[LocalId] = states[LocalId]
          /\ meta'[LocalId].clock = meta[LocalId].clock + 1
          /\ meta'[LocalId].lastUpdated = getUnixTime
          /\ RemoveOthers]_vars

\* C9 amended: the local entry is removed from states like that of every
\* other listed online client and the local id is reported removed; in
\* addition the local clock grows by 1 and lastUpdated is set to now.
C9_LocalRemovedClockBumped ==
    [][RemovesOnlineLocal =>
          /\ LocalId \notin DOMAIN states'
          /\ Listed(last', "change", "removed", LocalId)
          /\ Listed(last', "update", "removed", LocalId)
          /\ meta'[LocalId].clock = meta[LocalId].clock + 1
          /\ meta'[LocalId].lastUpdated = getUnixTime
          /\ RemoveOthers]_vars

\* removeAwarenessStates has removed the local client together with the
\* remote one, some time after the local state was last set
C9_Witness ==
    /\ component = "awareness"
    /\ last.op = "removeAwarenessStates"
    /\ Has(last.clients, LocalId)
    /\ Listed(last, "update", "removed", LocalId)
    /\ Listed(last, "update", "removed", 2)
    /\ LocalId \notin DOMAIN states
    /\ meta[LocalId].clock = 1
    /\ meta[LocalId].lastUpdated = getUnixTime

RemoteIds == Clients \ {LocalId}

\* a change and an update event of origin 'timeout' list c as removed
TimeoutReported(call, c) ==
    /\ \E i \in 1..Len(call.events) :
          /\ call.events[i].name = "change"
          /\ call.events[i].origin = "timeout"
          /\ Has(call.events[i].removed, c)
    /\ \E i \in 1..Len(call.events) :
          /\ call.events[i].name = "update"
          /\ call.events[i].origin = "timeout"
          /\ Has(call.events[i].removed, c)

\* a step of the heartbeat evicts client c: its states entry goes, both
\* events report it, its meta entry stays as it was
Evicted(c) ==
    /\ c \notin DOMAIN states'
    /\ TimeoutReported(last', c)
    /\ c \in DOMAIN meta' /\ meta'[c] = meta[c]

\* a step of the heartbeat does not evict client c
Spared(c) ==
    /\ c \in DOMAIN states => c \in DOMAIN states'
    /\ ~Listed(last', "change", "removed", c)
    /\ ~Listed(last', "update", "removed", c)

\* an update about client c has been accepted
AcceptedFrom(c) ==
    /\ last.op = "applyAwarenessUpdate"
    /\ \/ Listed(last, "update", "added", c)
       \/ Listed(last, "update", "updated", c)
       \/ Listed(last, "update", "removed", c)

\* if ticks keep firing as time passes, a remote client from which no update
\* is accepted any more is offline in the end
SweepEventually ==
    \A c \in RemoteIds :
       (/\ []<>(last.op = "tick")
        /\ []<>(last.op = "advance")
        /\ <>[]~AcceptedFrom(c))
       => <>[](c \notin DOMAIN states)

Reapplied(u) ==
    CHOOSE res \in
       UNION {{[same |-> twice.states = once.states /\ twice.meta = once.meta,
                events |-> twice.events] :
                 twice \in {applyAwarenessUpdate(once.states, once.meta, u,
                                                 "remote", getUnixTime)}} :
              once \in {applyAwarenessUpdate(states, meta, u, "remote",
                                             getUnixTime - TimeStep)}} : TRUE

\* C3: applying an update twice in a row leaves what applying it once
\* leaves, for LWWRegister.merge, LWWMap.merge and applyAwarenessUpdate; the
\* second application of an awareness update changes nothing and emits no
\* event.
C3_MergeIdempotent ==
    /\ component = "register" =>
          \A id \in Peers, u \in IState :
             LWWRegister_merge(LWWRegister_merge(reg[id], u), u)
                = LWWRegister_merge(reg[id], u)
    /\ component = "map" =>
          \A u \in MapState :
             LWWMap_merge(LWWMap_merge(data, u), u) = LWWMap_merge(data, u)
    /\ component = "awareness" =>
          \A u \in Updates :
             Reapplied(u) = [same |-> TRUE, events |-> <<>>]

\* the store shows an entry that the update just applied has installed, so
\* that the update is one whose second application is the no-op
C3_Witness ==
    /\ component = "awareness"
    /\ last.op = "applyAwarenessUpdate"
    /\ Listed(last, "update", "updated", 2)
    /\ Listed(last, "update", "removed", LocalId)
    /\ \E u \in Updates :
          /\ Len(u) = 2
          /\ u[1].clientID = 2 /\ u[1].state # Null
          /\ 2 \in DOMAIN states /\ states[2] = u[1].state
          /\ meta[2].clock = u[1].clock
          /\ u[2].clientID = LocalId /\ u[2].state = Null
          /\ meta[LocalId].clock = u[2].clock + 1
          /\ Reapplied(u).same

\* what a receiver shows of the peer: its state, or that it has none, and
\* its clock, or -1 when the receiver has no meta entry for it
View(r) ==
    [state |-> IF WirePeer \in DOMAIN receivers[r].states
               THEN receivers[r].states[WirePeer] ELSE "absent",
     clock |-> IF WirePeer \in DOMAIN receivers[r].meta
               THEN receivers[r].meta[WirePeer].clock ELSE -1]

\* C11: two stores that knew nothing of a remote peer and have each applied
\* every entry of the same set of entries about it, in any order, with any
\* duplication and batching, show the same state of the peer (or both none)
\* and the same clock, when each (peer, clock) pair carries at most one
\* non-null state.
C11_OrderIndependent ==
    (/\ component = "delivery"
     /\ \A r \in Receivers : receivers[r].got = wire)
    => View("r1") = View("r2")

\* both receivers have got a state of the peer and its removal at the same
\* clock, and a state at a lower clock; both show the peer offline
C11_Witness ==
    /\ component = "delivery"
    /\ Cardinality(wire) = 3
    /\ \E e \in wire, f \in wire, g \in wire :
          /\ e.clock = 2 /\ e.state = "{x:1}"
          /\ f.clock = 2 /\ f.state = Null
          /\ g.clock = 1 /\ g.state = "{}"
    /\ \A r \in Receivers : receivers[r].got = wire
    /\ View("r1") = [state |-> "absent", clock |-> 2]
    /\ View("r2") = [state |-> "absent", clock |-> 2]

NoLists ==
    [added |-> <<>>, updated |-> <<>>, filteredUpdated |-> <<>>,
     removed |-> <<>>]

\* a time after every lastUpdated of the store
Later == getUnixTime + TimeStep

\* the clock the store has for client c, a missing meta entry counting as 0
LocalClock(mt, c) == IF c \in DOMAIN mt THEN mt[c].clock ELSE 0

\* the rule of acceptance for entry e at a store
ShouldAccept(st, mt, e) ==
    \/ LocalClock(mt, e.clientID) < e.clock
    \/ /\ LocalClock(mt, e.clientID) = e.clock
       /\ e.state = Null
       /\ e.clientID \in DOMAIN st

\* C12: an entry (p, remoteClock, state) is accepted, its meta entry being
\* written, if and only if localClock < remoteClock, or localClock =
\* remoteClock and state is null and p has a states entry, a missing meta
\* entry counting as clock 0; an entry that is not accepted leaves states
\* and meta as they are and p in none of the lists; an update of rejected
\* entries only emits no event.
C12_RejectedIsNoOp ==
    component = "awareness" =>
       \A u \in Updates :
          /\ \A i \in 1..Len(u) :
                LET pre == Before(u, i)
                    post == applyLoop(pre.states, pre.meta, <<u[i]>>, 1,
                                      NoLists, Later)
                    written == /\ u[i].clientID \in DOMAIN post.meta
                               /\ post.meta[u[i].clientID].lastUpdated = Later
                IN  /\ written <=> ShouldAccept(pre.states, pre.meta, u[i])
                    /\ ~ShouldAccept(pre.states, pre.meta, u[i]) =>
                          /\ post.states = pre.states
                          /\ post.meta = pre.meta
                          /\ post.acc = NoLists
          /\ (\A i \in 1..Len(u) :
                 ~ShouldAccept(Before(u, i).states, Before(u, i).meta, u[i]))
             => LET r == applyAwarenessUpdate(states, meta, u, "remote", Later)
                IN  r.states = states /\ r.meta = meta /\ r.events = <<>>

\* an update has been applied some time after every entry of the store was
\* last written, to a store that knows the remote client as offline, and
\* has written no entry and emitted nothing
C12_Witness ==
    /\ component = "awareness"
    /\ last.op = "applyAwarenessUpdate"
    /\ last.events = <<>>
    /\ \A c \in DOMAIN meta : Age(meta, c) > 0
    /\ 2 \in DOMAIN meta
    /\ meta[2].clock = MaxClock
    /\ 2 \notin DOMAIN states

\* C13: in every reachable state of the awareness store every client id
\* with an entry in states has an entry in meta, and no step of
\* setLocalState, setLocalStateField, removeAwarenessStates,
\* applyAwarenessUpdate, the heartbeat or destroy deletes a meta entry.
C13_Lockstep ==
    /\ [](component = "awareness" => DOMAIN states \subseteq DOMAIN meta)
    /\ [][DOMAIN meta \subseteq DOMAIN meta']_vars

\* destroy() has run on a store that knows the remote client as offline:
\* states is empty and meta holds both clients
C13_Witness ==
    /\ component = "awareness"
    /\ last.op = "destroy"
    /\ states = EmptyMap
    /\ DOMAIN meta = Clients

\* the update event that accompanies change event ch among the events of a
\* call: the same added and removed lists, and every id of ch.updated
Accompanies(up, ch) ==
    /\ up.name = "update"
    /\ up.origin = ch.origin
    /\ up.added = ch.added
    /\ up.removed = ch.removed
    /\ \A c \in Clients : Has(ch.updated, c) => Has(up.updated, c)

\* the local state is set to a non-null state equal to the non-null state
\* it has
SetsEqualLocalState ==
    /\ last'.op = "setLocalState"
    /\ LocalId \in DOMAIN states
    /\ LocalId \in DOMAIN states'
    /\ states'[LocalId] = states[LocalId]

\* C14: setLocalState with a non-null state deeply equal to the current
\* non-null local state emits an update event whose updated list holds the
\* local id and no change event; and every change event of setLocalState
\* and applyAwarenessUpdate comes with an update event of the same added
\* and removed lists whose updated list holds every id of the change
\* event's updated list.
C14_ChangeFiltered ==
    /\ [][SetsEqualLocalState =>
            last'.events = <<Event("update", <<>>, <<LocalId>>, <<>>,
                                   "local")>>]_vars
    /\ []((/\ component = "awareness"
           /\ last.op \in {"setLocalState", "applyAwarenessUpdate"})
          => \A i \in 1..Len(last.events) :
                last.events[i].name = "change" =>
                   \E j \in 1..Len(last.events) :
                      Accompanies(last.events[j], last.events[i]))

\* setLocalState has set the state {x:1} again at a later clock: the only
\* event is an update that lists the local id as updated
C14_Witness ==
    /\ component = "awareness"
    /\ last.op = "setLocalState"
    /\ LocalId \in DOMAIN states
    /\ states[LocalId] = "{x:1}"
    /\ meta[LocalId].clock = MaxClock
    /\ last.events = <<Event("update", <<>>, <<LocalId>>, <<>>, "local")>>

\* origins a caller tags an update with
Origins == {"remote", "provider"}

\* the first call of setLocalState after the constructor, with a state
FirstSetLocalState ==
    /\ last.op = "none"
    /\ last'.op = "setLocalState"
    /\ LocalId \in DOMAIN states'

\* C15: the first setLocalState(s) of a constructed instance with non-null s
\* makes its clock 1, so that it encodes itself as the entry (id, 1, s);
\* a store with no meta entry for peer A that applies the entry (A, 1, s)
\* with origin o ends with states[A] = s and meta[A].clock = 1 and emits a
\* change and an update event, both with added = [A], empty updated and
\* removed, and origin o.
C15_FirstObservation ==
    /\ [][FirstSetLocalState =>
            /\ meta'[LocalId].clock = 1
            /\ encodeAwarenessUpdate(states', meta', <<LocalId>>)
                  = <<[clientID |-> LocalId, clock |-> 1,
                       state |-> states'[LocalId]]>>]_vars
    /\ [](component = "awareness" =>
            \A A \in Clients \ DOMAIN meta, s \in AwStates, o \in Origins :
               LET r == applyAwarenessUpdate(
                           states, meta,
                           <<[clientID |-> A, clock |-> 1, state |-> s]>>,
                           o, getUnixTime)
               IN  /\ A \in DOMAIN r.states /\ r.states[A] = s
                   /\ r.meta[A].clock = 1
                   /\ r.events = <<Event("change", <<A>>, <<>>, <<>>, o),
                                   Event("update", <<A>>, <<>>, <<>>, o)>>)

\* an instance whose first setLocalState has made its clock 1 has applied
\* the first entry it sees about the remote client
C15_Witness ==
    /\ component = "awareness"
    /\ LocalId \in DOMAIN states
    /\ states[LocalId] = "{x:1}"
    /\ meta[LocalId].clock = 1
    /\ last.op = "applyAwarenessUpdate"
    /\ last.events = <<Event("change", <<2>>, <<>>, <<>>, "remote"),
                       Event("update", <<2>>, <<>>, <<>>, "remote")>>
    /\ 2 \in DOMAIN states
    /\ states[2] = "{x:1}"
    /\ meta[2].clock = 1

\* C16: destroy() sets the local state to null and emits an update event
\* with removed = [local id] and origin 'local' while the listeners that
\* were registered before the call are still there; it clears the interval
\* timer, after which no heartbeat runs; a second destroy() clears nothing
\* further and leaves the local client offline.
C16_Teardown ==
    /\ [][last'.op = "destroy" =>
            /\ LocalId \notin DOMAIN states'
            /\ \E i \in 1..Len(last'.events) :
                  last'.events[i]
                     = Event("update", <<>>, <<>>, <<LocalId>>, "local")
            /\ last'.heard = observers
            /\ ~observers'
            /\ checkInterval' = "cleared"]_vars
    /\ [][checkInterval = "cleared" =>
            /\ last'.op # "tick"
            /\ checkInterval' = "cleared"]_vars

\* destroy() has run a second time, with no listener left and the timer
\* cleared before: the local client is offline
C16_Witness ==
    /\ component = "awareness"
    /\ last.op = "destroy"
    /\ ~last.heard
    /\ checkInterval = "cleared"
    /\ LocalId \notin DOMAIN states
    /\ meta[LocalId].clock = MaxClock

\* a step renews the local state: the state stays, the clock grows by 1,
\* lastUpdated becomes now, and an update event of origin 'local' lists the
\* local id as updated while no change event of origin 'local' is emitted
LocalRenewed ==
    /\ LocalId \in DOMAIN states'
    /\ states'[LocalId] = states[LocalId]
    /\ meta'[LocalId] = [clock |-> meta[LocalId].clock + 1,
                         lastUpdated |-> getUnixTime]
    /\ \E i \in 1..Len(last'.events) :
          last'.events[i] = Event("update", <<>>, <<LocalId>>, <<>>, "local")
    /\ \A i \in 1..Len(last'.events) :
          ~(last'.events[i].name = "change"
            /\ last'.events[i].origin = "local")

\* a step leaves the local state and the local meta entry as they are
LocalUntouched ==
    /\ (LocalId \in DOMAIN states') = (LocalId \in DOMAIN states)
    /\ LocalId \in DOMAIN states => states'[LocalId] = states[LocalId]
    /\ meta'[LocalId] = meta[LocalId]

\* C17: a tick at which the local client is online and more than half the
\* timeout has passed since its lastUpdated renews the local state; a tick
\* at which the local client is offline, or less than half the timeout has
\* passed, leaves the local state and meta untouched.  After every tick an
\* online local client is younger than half the timeout, so that with a
\* tick every TickPeriod its age stays below the timeout.
C17_HeartbeatRenewal ==
    /\ [][last'.op = "tick" =>
            /\ (/\ LocalId \in DOMAIN states
                /\ Age(meta, LocalId) > outdatedTimeout \div 2)
               => LocalRenewed
            /\ (\/ LocalId \notin DOMAIN states
                \/ Age(meta, LocalId) < outdatedTimeout \div 2)
               => LocalUntouched]_vars
    /\ []((/\ component = "awareness"
           /\ last.op = "tick"
           /\ LocalId \in DOMAIN states)
          => /\ Age(meta, LocalId) < outdatedTimeout \div 2
             /\ Age(meta, LocalId) + TickPeriod < outdatedTimeout)

\* a tick has renewed the state the constructor set, which was older than
\* the meta entry of the remote client, itself as old as the timeout
C17_Witness ==
    /\ component = "awareness"
    /\ last.op = "tick"
    /\ last.events = <<Event("update", <<>>, <<LocalId>>, <<>>, "local")>>
    /\ LocalId \in DOMAIN states
    /\ states[LocalId] = "{}"
    /\ meta[LocalId] = [clock |-> 1, lastUpdated |-> getUnixTime]
    /\ 2 \in DOMAIN meta
    /\ 2 \notin DOMAIN states
    /\ Age(meta, 2) = outdatedTimeout

\* a step gives client c a state it did not have: another value, or a
\* value where it had none
NewStateValue(c) ==
    /\ c \in DOMAIN states'
    /\ c \in DOMAIN states => states'[c] # states[c]

\* a step runs setLocalState on behalf of the caller
CallsSetLocalState ==
    \/ last'.op = "setLocalState"
    \/ last'.op = "setLocalStateField" /\ LocalId \in DOMAIN states

\* C18: the clock of no client ever decreases; every setLocalState after
\* the constructor's adds exactly 1 to the local clock; and a client gets a
\* state value it did not have only in a step in which its clock strictly
\* increases (a state can go away at an unchanged clock).
C18_ClockMonotonic ==
    [][/\ \A c \in DOMAIN meta :
             c \in DOMAIN meta' /\ meta'[c].clock >= meta[c].clock
       /\ CallsSetLocalState =>
             meta'[LocalId].clock = meta[LocalId].clock + 1
       /\ \A c \in Clients :
             NewStateValue(c) =>
                /\ c \in DOMAIN meta'
                /\ c \in DOMAIN meta => meta'[c].clock > meta[c].clock]_vars

\* the update just applied has given the remote client, already known, a
\* state at clock 2, after setLocalState had made the local clock 1
C18_Witness ==
    /\ component = "awareness"
    /\ last.op = "applyAwarenessUpdate"
    /\ Listed(last, "update", "updated", 2)
    /\ 2 \in DOMAIN states
    /\ meta[2].clock = MaxClock
    /\ meta[LocalId].clock = 1

\* a change or an update event of a call lists client c in its list `kind`
ListedAny(call, kind, c) ==
    Listed(call, "change", kind, c) \/ Listed(call, "update", kind, c)

\* C19 as stated: when setLocalState, removeAwarenessStates or
\* applyAwarenessUpdate emits an event that lists p as removed, p had an
\* entry in states before the call and has none after it; when an event
\* lists p as added, p had no entry before the call and has one after it.
C19_TruthfulLists ==
    [][last'.op \in {"setLocalState", "removeAwarenessStates",
                     "applyAwarenessUpdate"} =>
          \A c \in Clients :
             /\ ListedAny(last', "removed", c) =>
                   c \in DOMAIN states /\ c \notin DOMAIN states'
             /\ ListedAny(last', "added", c) =>
                   c \notin DOMAIN states /\ c \in DOMAIN states']_vars

\* the store and the lists before each entry of update u, and after the
\* last one
Stages(u) == [i \in 1..Len(u) + 1 |-> Before(u, i)]

\* entry i adds an id to the list `kind`, B being the stages of the update
Pushed(B, i, kind) == Len(B[i + 1].acc[kind]) > Len(B[i].acc[kind])

\* C19 amended: removeAwarenessStates lists p as removed exactly when p had
\* an entry in states before the call and has none after it.  setLocalState
\* lists the local id as removed whenever it is called with null, whether
\* or not there was an entry, and there is none after the call; it lists
\* the local id as added only when there was no entry and there is one
\* after the call.  applyAwarenessUpdate lists p as removed for an accepted
\* null entry about a p that has a meta entry, whether or not p had an
\* entry in states, and once the entry is processed p has an entry only if
\* it is the local id and had one; it lists p as added for an accepted
\* non-null entry about a p without a meta entry, and p then had no entry
\* and has one once the entry is processed.
C19_ListsAsClassified ==
    /\ [][/\ last'.op = "removeAwarenessStates" =>
               \A c \in Clients :
                  /\ ListedAny(last', "removed", c) <=>
                        (c \in DOMAIN states /\ c \notin DOMAIN states')
                  /\ ~ListedAny(last', "added", c)
          /\ last'.op = "setLocalState" =>
               \A c \in Clients :
                  /\ ListedAny(last', "removed", c) <=>
                        (c = LocalId /\ c \notin DOMAIN states')
                  /\ ListedAny(last', "added", c) <=>
                        (/\ c = LocalId
                         /\ c \notin DOMAIN states
                         /\ c \in DOMAIN states')]_vars
    /\ [](component = "awareness" =>
            \A u \in Updates :
               \A B \in {Stages(u)},
                  r \in {applyAwarenessUpdate(states, meta, u, "remote",
                                              getUnixTime)} :
                   /\ \A i \in 1..Len(u) :
                         LET c == u[i].clientID
                             pre == B[i]
                             post == B[i + 1]
                         IN  /\ Pushed(B, i, "removed") =>
                                   /\ u[i].state = Null
                                   /\ c \in DOMAIN pre.meta
                                   /\ c \in DOMAIN post.states <=>
                                         (/\ c = LocalId
                                          /\ c \in DOMAIN pre.states)
                             /\ Pushed(B, i, "added") =>
                                   /\ c \notin DOMAIN pre.meta
                                   /\ c \notin DOMAIN pre.states
                                   /\ c \in DOMAIN post.states
                                   /\ post.states[c] = u[i].state
                   /\ \A c \in Clients, kind \in {"added", "removed"} :
                         ListedAny([events |-> r.events], kind, c) <=>
                            \E i \in 1..Len(u) :
                               u[i].clientID = c /\ Pushed(B, i, kind))

\* an update has listed the remote client as added and as removed, and the
\* client has no entry in states
C19_Witness ==
    /\ component = "awareness"
    /\ last.op = "applyAwarenessUpdate"
    /\ Listed(last, "update", "added", 2)
    /\ Listed(last, "update", "removed", 2)
    /\ 2 \notin DOMAIN states
    /\ meta[2].clock = MaxClock

\* C20: an entry of clock 0 about a client the store has no meta entry for
\* is not accepted, whatever it carries; the state the constructor sets is
\* encoded with clock 0; and a remote client that shows a state in a store
\* has a clock of at least 1 there.
C20_ClockZeroNeverInstalled ==
    /\ component = "awareness" =>
          \A c \in Clients \ DOMAIN meta, s \in AwStates \cup {Null} :
             \A r \in {applyAwarenessUpdate(
                           states, meta,
                           <<[clientID |-> c, clock |-> 0, state |-> s]>>,
                           "remote", Later)} :
                r.states = states /\ r.meta = meta /\ r.events = <<>>
    /\ (component = "awareness" /\ last.op = "none") =>
          encodeAwarenessUpdate(states, meta, <<LocalId>>)
             = <<[clientID |-> LocalId, clock |-> 0, state |-> "{}"]>>
    /\ component = "awareness" =>
          \A c \in DOMAIN states \ {LocalId} : meta[c].clock >= 1

\* a store still in the state its constructor left, at clock 0, shows the
\* remote client for the first time, at clock 1
C20_Witness ==
    /\ component = "awareness"
    /\ last.op = "applyAwarenessUpdate"
    /\ Listed(last, "update", "added", 2)
    /\ 2 \in DOMAIN states
    /\ meta[2].clock = 1
    /\ LocalId \in DOMAIN states
    /\ states[LocalId] = "{}"
    /\ meta[LocalId].clock = 0

====
